---- MODULE Spec2Model ----
(***************************************************************************)
(* A model of pdf_cutter.py: the PageCanvas layout, the PdfViewerWidget    *)
(* scroll / zoom / search logic, the rubber-band selection, the export     *)
(* dialog and the main window's document loading.                          *)
(*                                                                         *)
(* Conventions.  Python lists are sequences; a Python index i is the       *)
(* sequence index i + 1 (operator At).  Python's None is the string        *)
(* "None", or the record Nil where the other values are records.           *)
(* Zoom factors are integers in units of 1/ZoomUnit (1.0 is                *)
(* 10000), so that ZOOM_MIN, ZOOM_MAX, ZOOM_STEP and the 0.001 tolerance   *)
(* of set_zoom are all exact; the scroll fraction `rel' captured by        *)
(* set_zoom is the exact rational [num, den].  Both idealise Python's      *)
(* binary floating point.                                                  *)
(***************************************************************************)
EXTENDS Integers, Sequences, FiniteSets, TLC

None == "None"

\* None where the other values are records (a QPoint, a QRect, a dialog)
Nil == [none |-> TRUE]

\* no notification yet
NoNote == 0 - 1

\* ---------- constants (pdf_cutter.py lines 77-81) -----------------------
DPI_RENDER == 150
ZOOM_TOL == 10
ZoomUnit == ZOOM_TOL * 1000
ZOOM_STEP == 1000
ZOOM_MIN == 2000
ZOOM_MAX == 50000
PAGE_GAP == 10

\* ---------- bounds of the model -----------------------------------------
MaxPages == 3
MaxPixW == 1
MaxPixH == 2
MaxTimers == 2
MaxYProbe == 45
MaxBookmarks == 1
MaxZooms == 2

\* ---------- small helpers -----------------------------------------------
Max(a, b) == IF a >= b THEN a ELSE b
Min(a, b) == IF a <= b THEN a ELSE b
Abs(a) == IF a >= 0 THEN a ELSE -a
At(s, i) == s[i + 1]
CeilDiv(a, b) == -((-a) \div b)

\* QRect as Qt stores it: the corner coordinates x1, y1, x2, y2, with
\* width = x2 - x1 + 1 and height = y2 - y1 + 1.
QRectXYWH(x, y, w, h) == [x1 |-> x, y1 |-> y, x2 |-> x + w - 1, y2 |-> y + h - 1]
QRectNull == [x1 |-> 0, y1 |-> 0, x2 |-> -1, y2 |-> -1]
QRectPts(p, q) == [x1 |-> p.x, y1 |-> p.y, x2 |-> q.x, y2 |-> q.y]
RWidth(r) == r.x2 - r.x1 + 1
RHeight(r) == r.y2 - r.y1 + 1
RIsEmpty(r) == r.x1 > r.x2 \/ r.y1 > r.y2

\* QRect.normalized() of Qt 6: a negative extent is swapped.
Normalized(r) ==
    LET xs == IF r.x2 < r.x1 - 1 THEN <<r.x2 + 1, r.x1 - 1>> ELSE <<r.x1, r.x2>>
        ys == IF r.y2 < r.y1 - 1 THEN <<r.y2 + 1, r.y1 - 1>> ELSE <<r.y1, r.y2>>
    IN  [x1 |-> xs[1], y1 |-> ys[1], x2 |-> xs[2], y2 |-> ys[2]]

\* QRect.intersected(): empty when either is null or they do not overlap.
Intersected(a, b) ==
    LET l == Max(a.x1, b.x1)
        t == Max(a.y1, b.y1)
        r == Min(a.x2, b.x2)
        bt == Min(a.y2, b.y2)
    IN  IF RIsEmpty(a) \/ RIsEmpty(b) \/ l > r \/ t > bt
        THEN QRectNull
        ELSE [x1 |-> l, y1 |-> t, x2 |-> r, y2 |-> bt]

\* bool(QPoint): PyQt's QPoint.__bool__ is "not isNull()", and QPoint(0, 0)
\* is null; None is falsy.
Truthy(p) == p # Nil /\ ~(p.x = 0 /\ p.y = 0)

VARIABLES
    \* PageCanvas
    pixmaps, page_y, total_h, max_w, cwidth, cheight, sel_origin, sel_current,
    \* PdfViewerWidget
    doc, zoom, search_rects, current_page, sbValue, sbMax, viewportH, viewportW,
    timers,
    \* PdfCutterWindow
    win_doc, doc_path, custom_bookmarks, bookmark_tree, page_spin, spin_max,
    openDocs,
    \* ExportDialog and the output file
    dlg, written,
    \* clipboard
    clipboard,
    \* observation of the last handler: what it was, the page_changed
    \* notifications and message boxes it produced, the pages whose text it
    \* queried, and the state of the drag gesture
    lastOp, notes, lastNote, msgs, queried, dragging, dragStart, pointer,
    \* the number of zoom changes so far (bounded by MaxZooms)
    zoomCount

canvasVars == <<pixmaps, page_y, total_h, max_w, cwidth, cheight>>
selVars == <<sel_origin, sel_current, dragging, dragStart, pointer>>
viewVars == <<doc, zoom, search_rects, current_page, sbValue, sbMax, timers,
              page_spin, spin_max, notes, lastNote>>
winVars == <<win_doc, doc_path, custom_bookmarks, bookmark_tree, openDocs>>
vars == <<pixmaps, page_y, total_h, max_w, cwidth, cheight, sel_origin,
          sel_current, doc, zoom, search_rects, current_page, sbValue, sbMax,
          viewportH, viewportW, timers, win_doc, doc_path, custom_bookmarks,
          bookmark_tree, page_spin, spin_max, openDocs, dlg, written,
          clipboard, lastOp, notes, lastNote, msgs, queried, dragging,
          dragStart, pointer, zoomCount>>

\* ======================================================================
\*  PageCanvas
\* ======================================================================

\* The loop of _recompute (lines 113-116) from Python index i on.
RECURSIVE RecomputeLoop(_, _, _, _, _)
RecomputeLoop(pms, i, y, mw, ys) ==
    IF i >= Len(pms)
    THEN [y |-> y, max_w |-> mw, page_y |-> ys]
    ELSE RecomputeLoop(pms, i + 1, y + At(pms, i).h + PAGE_GAP,
                       Max(mw, At(pms, i).w), Append(ys, y))

\* A variant of _recompute: the running y starts at 0, not at PAGE_GAP.
RecomputeNoLeadGap(pms) ==
    LET r == RecomputeLoop(pms, 0, 0, 0, <<>>)
    IN  [page_y |-> r.page_y,
         total_h |-> Max(r.y, 1),
         max_w |-> Max(r.max_w + PAGE_GAP * 2, 1)]

\* A variant of _recompute: the width gets one gap, not two.
RecomputeOneGap(pms) ==
    LET r == RecomputeLoop(pms, 0, PAGE_GAP, 0, <<>>)
    IN  [page_y |-> r.page_y,
         total_h |-> Max(r.y, 1),
         max_w |-> Max(r.max_w + PAGE_GAP, 1)]

\* A variant of _recompute that does not clear _page_y first.
RecomputeNoClear(pms) ==
    LET r == RecomputeLoop(pms, 0, PAGE_GAP, 0, page_y)
    IN  [page_y |-> r.page_y,
         total_h |-> Max(r.y, 1),
         max_w |-> Max(r.max_w + PAGE_GAP * 2, 1)]

\* _recompute: the layout fields for a pixmap list.
Recompute(pms) ==
    LET r == RecomputeLoop(pms, 0, PAGE_GAP, 0, <<>>)
    IN  [page_y |-> r.page_y,
         total_h |-> Max(r.y, 1),
         max_w |-> Max(r.max_w + PAGE_GAP * 2, 1)]

\* page_at_y: scan from the last page backward.
RECURSIVE PageAtYLoop(_, _, _)
PageAtYLoop(ys, i, y) ==
    IF i < 0 THEN 0
    ELSE IF y >= At(ys, i) THEN i
    ELSE PageAtYLoop(ys, i - 1, y)

\* A variant of page_at_y: the comparison is strict (y > top).
RECURSIVE PageAtYStrictLoop(_, _, _)
PageAtYStrictLoop(ys, i, y) ==
    IF i < 0 THEN 0
    ELSE IF y > At(ys, i) THEN i
    ELSE PageAtYStrictLoop(ys, i - 1, y)

page_at_y_strict(ys, y) == PageAtYStrictLoop(ys, Len(ys) - 1, y)

page_at_y(ys, y) == PageAtYLoop(ys, Len(ys) - 1, y)

\* A variant of page_rect: the page is not centred (x = 0).
page_rect_left(pms, ys, cw, idx) ==
    IF 0 <= idx /\ idx < Len(pms)
    THEN QRectXYWH(0, At(ys, idx), At(pms, idx).w, At(pms, idx).h)
    ELSE QRectNull

\* page_rect on a canvas of width cw.
page_rect(pms, ys, cw, idx) ==
    IF 0 <= idx /\ idx < Len(pms)
    THEN LET pm == At(pms, idx)
             x == Max(0, (cw - pm.w) \div 2)
         IN  QRectXYWH(x, At(ys, idx), pm.w, pm.h)
    ELSE QRectNull

\* sizeHint
sizeHint(pms, mw, th) ==
    IF Len(pms) > 0 THEN [w |-> mw, h |-> th] ELSE [w |-> 100, h |-> 100]

\* selection_rect
selection_rect(o, c) ==
    IF Truthy(o) /\ Truthy(c) THEN Normalized(QRectPts(o, c)) ELSE Nil

\* ======================================================================
\*  Documents: the files fitz.open can be given
\* ======================================================================

\* What fitz.open(path) finds.  ok = FALSE: the library raises.  pages: the
\* page sizes in points; toc: the page numbers of get_toc(); hits: the
\* pages on which search_for(text) finds something; words: per page the
\* text on it and its box in points (None: a page without text).
Pt(w, h) == [w |-> w, h |-> h]
Word(t, x0, y0, x1, y1) == [text |-> t, x0 |-> x0, y0 |-> y0, x1 |-> x1, y1 |-> y1]
NoWord == [text |-> "", x0 |-> 0, y0 |-> 0, x1 |-> 0, y1 |-> 0]

Files ==
    [p \in {"a.pdf", "b.pdf", "empty.pdf", "bad.pdf"} |->
        CASE p = "a.pdf" ->
               [ok |-> TRUE, pages |-> <<Pt(24, 36)>>, toc |-> <<>>,
                hits |-> [t \in {"x", "zz"} |-> {}],
                words |-> <<Word("alpha", 2, 2, 20, 10)>>]
          [] p = "b.pdf" ->
               [ok |-> TRUE, pages |-> <<Pt(24, 12), Pt(12, 12), Pt(24, 36)>>,
                toc |-> <<1, 3, 0, 5>>,
                hits |-> [t \in {"x", "zz"} |-> IF t = "x" THEN {1, 2} ELSE {}],
                words |-> <<NoWord, Word("beta", 1, 1, 10, 6),
                            Word("gamma", 2, 2, 20, 10)>>]
          [] p = "empty.pdf" ->
               [ok |-> TRUE, pages |-> <<>>, toc |-> <<>>,
                hits |-> [t \in {"x", "zz"} |-> {}], words |-> <<>>]
          [] OTHER ->
               [ok |-> FALSE, pages |-> <<>>, toc |-> <<>>,
                hits |-> [t \in {"x", "zz"} |-> {}], words |-> <<>>]]

Paths == DOMAIN Files
SearchTexts == {"x", "zz"}

\* len(doc), and bool(doc): a fitz.Document is falsy when it has no pages.
DocLen(d) == IF d = None THEN 0 ELSE Len(Files[d].pages)
DocTruthy(d) == d # None /\ DocLen(d) > 0

\* page.get_pixmap(matrix=Matrix(scale, scale)) with
\* scale = DPI_RENDER / 72 * zoom: the pixel size of a page.
RenderPage(pg, z) ==
    [w |-> CeilDiv(pg.w * DPI_RENDER * z, 72 * ZoomUnit),
     h |-> CeilDiv(pg.h * DPI_RENDER * z, 72 * ZoomUnit)]

\* ======================================================================
\*  PdfViewerWidget, as functions of the viewer state v
\* ======================================================================

Cur ==
    [pixmaps |-> pixmaps, page_y |-> page_y, total_h |-> total_h,
     max_w |-> max_w, cwidth |-> cwidth, cheight |-> cheight,
     doc |-> doc, zoom |-> zoom, search_rects |-> search_rects,
     current_page |-> current_page, sbValue |-> sbValue, sbMax |-> sbMax,
     timers |-> timers, page_spin |-> page_spin, spin_max |-> spin_max,
     notes |-> <<>>]

\* The state a handler leaves; lastNote is the last notification emitted
\* before the handler ran.
Commit(v0) ==
    \E v \in {v0} :
    /\ pixmaps' = v.pixmaps
    /\ page_y' = v.page_y
    /\ total_h' = v.total_h
    /\ max_w' = v.max_w
    /\ cwidth' = v.cwidth
    /\ cheight' = v.cheight
    /\ doc' = v.doc
    /\ zoom' = v.zoom
    /\ search_rects' = v.search_rects
    /\ current_page' = v.current_page
    /\ sbValue' = v.sbValue
    /\ sbMax' = v.sbMax
    /\ timers' = v.timers
    /\ page_spin' = v.page_spin
    /\ spin_max' = v.spin_max
    /\ notes' = v.notes
    /\ lastNote' = IF notes # <<>> THEN notes[Len(notes)] ELSE lastNote

\* page_changed.emit(pg), with the connected slot _on_page_changed: the
\* page spin box is set to pg + 1 (bounded to its range) with its signals
\* blocked.
Emit(v, pg) ==
    [v EXCEPT !.notes = Append(@, pg),
              !.page_spin = Max(1, Min(v.spin_max, pg + 1))]

\* A variant of _on_scroll that takes the page at the top of the viewport.
OnScrollTop(v) ==
    IF Len(v.pixmaps) = 0 THEN v
    ELSE LET pg == page_at_y(v.page_y, v.sbValue)
         IN  IF pg # v.current_page
             THEN Emit([v EXCEPT !.current_page = pg], pg)
             ELSE v

\* A variant of _on_scroll that emits page_changed on every scroll event.
OnScrollAlwaysEmit(v) ==
    IF Len(v.pixmaps) = 0 THEN v
    ELSE LET pg == page_at_y(v.page_y, v.sbValue + viewportH \div 2)
         IN  Emit([v EXCEPT !.current_page = pg], pg)

\* _on_scroll
OnScroll(v) ==
    IF Len(v.pixmaps) = 0 THEN v
    ELSE LET mid_y == v.sbValue + viewportH \div 2
             pg == page_at_y(v.page_y, mid_y)
         IN  IF pg # v.current_page
             THEN Emit([v EXCEPT !.current_page = pg], pg)
             ELSE v

\* verticalScrollBar().setValue(x): the value is bounded to [0, maximum];
\* valueChanged (connected to _on_scroll) fires only when it changes.
SetValue(v, x) ==
    LET b == Max(0, Min(v.sbMax, x))
    IN  IF b = v.sbValue THEN v ELSE OnScroll([v EXCEPT !.sbValue = b])

\* set_pixmaps: _recompute, then setFixedSize resizes the canvas and the
\* scroll area re-ranges its scroll bar to canvas height - viewport height,
\* re-bounding the value.
SetPixmaps(v, pms) ==
    LET r == Recompute(pms)
        v1 == [v EXCEPT !.pixmaps = pms, !.page_y = r.page_y,
                        !.total_h = r.total_h, !.max_w = r.max_w,
                        !.cwidth = r.max_w, !.cheight = r.total_h,
                        !.sbMax = Max(0, r.total_h - viewportH)]
    IN  SetValue(v1, v1.sbValue)

\* _render_all
RenderAll(v) ==
    IF ~DocTruthy(v.doc) THEN SetPixmaps(v, <<>>)
    ELSE SetPixmaps(v, [i \in 1..DocLen(v.doc) |->
                            RenderPage(Files[v.doc].pages[i], v.zoom)])

\* A variant of scroll_to_page whose range test guards the scrolling only.
ScrollToPageUnguarded(v, page_index) ==
    LET v1 == IF 0 <= page_index /\ page_index < Len(v.pixmaps)
              THEN SetValue(v, Max(0, At(v.page_y, page_index) - 10))
              ELSE v
    IN  Emit([v1 EXCEPT !.current_page = page_index], page_index)

\* scroll_to_page
ScrollToPage(v, page_index) ==
    IF ~(0 <= page_index /\ page_index < Len(v.pixmaps)) THEN v
    ELSE LET y == At(v.page_y, page_index)
             v1 == SetValue(v, Max(0, y - 10))
         IN  Emit([v1 EXCEPT !.current_page = page_index], page_index)

\* load_document
LoadDocument(v, d) ==
    ScrollToPage(RenderAll([v EXCEPT !.doc = d, !.search_rects = {}]), 0)

\* close_document
CloseDocument(v) == SetPixmaps([v EXCEPT !.doc = None], <<>>)

\* A variant of set_zoom that does not bound the requested zoom.
SetZoomNoClamp(v, z) ==
    IF Abs(z - v.zoom) < ZOOM_TOL THEN v
    ELSE LET v1 == RenderAll([v EXCEPT !.zoom = z])
             rel == [num |-> v.sbValue, den |-> Max(v.sbMax, 1),
                     newMax |-> v1.sbMax, doc |-> v.doc]
         IN  [v1 EXCEPT !.timers = Append(@, rel)]

\* set_zoom: the restore of the scroll position is deferred
\* (QTimer.singleShot(0, ...)) and keeps the captured fraction
\* rel = num / den.  The timer entry also notes, for the properties, the
\* scroll maximum this zoom change produced and the document it was for.
SetZoom(v, z) ==
    LET zc == Max(ZOOM_MIN, Min(ZOOM_MAX, z))
    IN  IF Abs(zc - v.zoom) < ZOOM_TOL THEN v
        ELSE LET v1 == RenderAll([v EXCEPT !.zoom = zc])
                 rel == [num |-> v.sbValue, den |-> Max(v.sbMax, 1),
                         newMax |-> v1.sbMax, doc |-> v.doc]
             IN  [v1 EXCEPT !.timers = Append(@, rel)]

\* rel is a Python float: num / den rounds to the nearest double, and so
\* does its product with the maximum, which can land just below an exact
\* integer; int() then truncates to one less.  RoundsBelow lists the
\* <<num, den, maximum>> for which IEEE-754 double arithmetic does so, over
\* the scroll maxima the documents of Files have at the zoom levels used.
RoundsBelow ==
    {<<47, 70, 70>>, <<21, 79, 79>>, <<42, 79, 79>>, <<47, 79, 79>>,
     <<29, 100, 100>>, <<57, 100, 100>>, <<58, 100, 100>>, <<7, 190, 190>>,
     <<14, 190, 190>>, <<28, 190, 190>>, <<53, 190, 190>>,
     <<56, 190, 190>>, <<63, 190, 190>>, <<99, 190, 190>>,
     <<106, 190, 190>>, <<112, 190, 190>>, <<113, 190, 190>>,
     <<119, 190, 190>>, <<126, 190, 190>>, <<123, 240, 240>>,
     <<47, 295, 295>>, <<61, 295, 295>>, <<94, 295, 295>>,
     <<95, 295, 295>>, <<121, 295, 295>>, <<122, 295, 295>>,
     <<161, 295, 295>>, <<163, 295, 295>>, <<188, 295, 295>>,
     <<190, 295, 295>>, <<215, 295, 295>>, <<217, 295, 295>>,
     <<242, 295, 295>>, <<244, 295, 295>>, <<7, 554, 554>>,
     <<14, 554, 554>>, <<28, 554, 554>>, <<56, 554, 554>>,
     <<112, 554, 554>>, <<125, 554, 554>>, <<211, 554, 554>>,
     <<224, 554, 554>>, <<237, 554, 554>>, <<250, 554, 554>>,
     <<422, 554, 554>>, <<435, 554, 554>>, <<448, 554, 554>>,
     <<461, 554, 554>>, <<474, 554, 554>>, <<487, 554, 554>>,
     <<500, 554, 554>>, <<361, 565, 565>>, <<369, 565, 565>>,
     <<377, 565, 565>>, <<385, 565, 565>>, <<393, 565, 565>>,
     <<401, 565, 565>>, <<409, 565, 565>>, <<417, 565, 565>>,
     <<425, 565, 565>>, <<433, 565, 565>>, <<441, 565, 565>>,
     <<449, 565, 565>>, <<457, 565, 565>>, <<465, 565, 565>>,
     <<473, 565, 565>>, <<481, 565, 565>>, <<489, 565, 565>>,
     <<497, 565, 565>>, <<505, 565, 565>>}

\* int(rel * maximum) for rel = num / den
IntRelTimes(num, den, m) ==
    IF <<num, den, m>> \in RoundsBelow
    THEN (num * m) \div den - 1
    ELSE (num * m) \div den

\* The deferred lambda of set_zoom: sb.setValue(int(rel * sb.maximum())).
RunRestore(v) ==
    LET rel == Head(v.timers)
    IN  SetValue([v EXCEPT !.timers = Tail(@)],
                 IntRelTimes(rel.num, rel.den, v.sbMax))

\* min(self.search_rects)
MinOf(S) == CHOOSE m \in S : \A n \in S : m <= n

\* search
Search(v, text) ==
    IF ~DocTruthy(v.doc) \/ text = ""
    THEN RenderAll([v EXCEPT !.search_rects = {}])
    ELSE LET found == {i \in 0..(DocLen(v.doc) - 1) : i \in Files[v.doc].hits[text]}
             v1 == RenderAll([v EXCEPT !.search_rects = found])
         IN  IF found # {} THEN ScrollToPage(v1, MinOf(found)) ELSE v1

\* clear_search
ClearSearch(v) == RenderAll([v EXCEPT !.search_rects = {}])

\* ======================================================================
\*  Initial state: the window after PdfCutterWindow.__init__ and show()
\* ======================================================================

\* The viewport size (pixels) the window has been given.
Viewports == {[w |-> 140, h |-> 100]}

Init ==
    /\ pixmaps = <<>>
    /\ page_y = <<>>
    /\ total_h = 0
    /\ max_w = 0
    \* QScrollArea.setWidget resizes the canvas to its sizeHint
    /\ cwidth = sizeHint(<<>>, 0, 0).w
    /\ cheight = sizeHint(<<>>, 0, 0).h
    /\ sel_origin = Nil
    /\ sel_current = Nil
    /\ doc = None
    /\ zoom = ZoomUnit
    /\ search_rects = {}
    /\ current_page = 0
    /\ \E vp \in Viewports :
          /\ viewportH = vp.h
          /\ viewportW = vp.w
          /\ sbMax = Max(0, sizeHint(<<>>, 0, 0).h - vp.h)
    /\ sbValue = 0
    /\ timers = <<>>
    /\ win_doc = None
    /\ doc_path = ""
    /\ custom_bookmarks = <<>>
    /\ bookmark_tree = <<>>
    /\ page_spin = 1
    /\ spin_max = 1
    /\ openDocs = {}
    /\ dlg = Nil
    /\ written = Nil
    /\ clipboard = ""
    /\ lastOp = "init"
    /\ notes = <<>>
    /\ lastNote = NoNote
    /\ msgs = <<>>
    /\ queried = <<>>
    /\ dragging = FALSE
    /\ dragStart = Nil
    /\ pointer = Nil
    /\ zoomCount = 0

constVars == <<viewportH, viewportW, zoomCount>>
dlgVars == <<dlg, written>>
copyVars == <<clipboard, queried>>

\* A modal dialog (ExportDialog.exec) blocks input to the main window.
Idle == dlg = Nil

\* ======================================================================
\*  PdfCutterWindow: loading
\* ======================================================================

\* _populate_bookmarks: the page index (pg - 1) each TOC item carries.
PopulateBookmarks(d) ==
    IF ~DocTruthy(d) THEN <<>>
    ELSE [i \in 1..Len(Files[d].toc) |-> Files[d].toc[i] - 1]

\* page_spin.setRange(1, n): a value above the new maximum is lowered to it
\* and valueChanged calls scroll_to_page(value - 1).
SpinSetRange(v, n) ==
    LET mx == Max(1, n)
    IN  IF v.page_spin > mx
        THEN ScrollToPage([v EXCEPT !.spin_max = mx, !.page_spin = mx], mx - 1)
        ELSE [v EXCEPT !.spin_max = mx]

\* A variant of the failing _load_pdf: the current document is closed before fitz.open
\* is tried.
LoadPdfFailClosing(path) ==
    /\ msgs' = <<"critical">>
    /\ lastOp' = "load_failed"
    /\ Commit(IF DocTruthy(win_doc) THEN CloseDocument(Cur) ELSE Cur)
    /\ openDocs' = IF DocTruthy(win_doc) THEN openDocs \ {win_doc} ELSE openDocs
    /\ UNCHANGED <<win_doc, doc_path, custom_bookmarks, bookmark_tree>>

\* _load_pdf when fitz.open raises: one message box, nothing else.
LoadPdfFail(path) ==
    /\ msgs' = <<"critical">>
    /\ lastOp' = "load_failed"
    /\ Commit(Cur)
    /\ UNCHANGED <<win_doc, doc_path, custom_bookmarks, bookmark_tree, openDocs>>

\* _load_pdf when fitz.open succeeds.
LoadPdfOk(path) ==
    LET v0 == IF DocTruthy(win_doc) THEN CloseDocument(Cur) ELSE Cur
        v1 == LoadDocument(v0, path)
    IN  /\ openDocs' = (IF DocTruthy(win_doc) THEN openDocs \ {win_doc} ELSE openDocs)
                          \cup {path}
        /\ win_doc' = path
        /\ doc_path' = path
        /\ custom_bookmarks' = <<>>
        /\ bookmark_tree' = PopulateBookmarks(path)
        /\ Commit(SpinSetRange(v1, DocLen(path)))
        /\ msgs' = <<>>
        /\ lastOp' = "load_pdf"

\* _load_pdf (from _open_dialog, dropEvent or the command line)
LoadPdf(path) ==
    /\ Idle
    /\ IF Files[path].ok THEN LoadPdfOk(path) ELSE LoadPdfFail(path)
    /\ UNCHANGED <<sel_origin, sel_current, dragging, dragStart, pointer,
                   dlg, written, clipboard, queried, viewportH, viewportW,
                   zoomCount>>

\* ======================================================================
\*  Scrolling and navigation events
\* ======================================================================

\* The scroll-bar values a user scroll is tried with: both ends, and for
\* each page the two values around the one that brings its top to the
\* middle of the viewport.
UserScrollValues ==
    {x \in {0, sbMax}
            \cup {At(page_y, i) - viewportH \div 2 : i \in 0..(Len(page_y) - 1)}
            \cup {At(page_y, i) - viewportH \div 2 - 1 : i \in 0..(Len(page_y) - 1)} :
        0 <= x /\ x <= sbMax}

\* The user moves the vertical scroll bar (wheel, drag, keys).
UserScroll(x) ==
    /\ Idle
    /\ x # sbValue
    /\ Commit(SetValue(Cur, x))
    /\ lastOp' = "scroll"
    /\ msgs' = <<>>
    /\ UNCHANGED <<winVars, selVars, dlgVars, copyVars, constVars>>

\* The user changes the page spin box: valueChanged -> scroll_to_page(v - 1).
PageSpin(n) ==
    /\ Idle
    /\ n # page_spin
    /\ Commit(ScrollToPage([Cur EXCEPT !.page_spin = n], n - 1))
    /\ lastOp' = "scroll_to_page"
    /\ msgs' = <<>>
    /\ UNCHANGED <<winVars, selVars, dlgVars, copyVars, constVars>>

\* _on_bm_click on the i-th item of the TOC tree
BmClick(i) ==
    /\ Idle
    /\ Commit(ScrollToPage(Cur, bookmark_tree[i]))
    /\ lastOp' = "bm_click"
    /\ msgs' = <<>>
    /\ UNCHANGED <<winVars, selVars, dlgVars, copyVars, constVars>>

\* _add_bookmark, the user accepting the name
AddBookmark ==
    /\ Idle
    /\ DocTruthy(win_doc)
    /\ Len(custom_bookmarks) < MaxBookmarks
    /\ custom_bookmarks' = Append(custom_bookmarks, current_page)
    /\ Commit(Cur)
    /\ lastOp' = "add_bookmark"
    /\ msgs' = <<>>
    /\ UNCHANGED <<win_doc, doc_path, bookmark_tree, openDocs, selVars, dlgVars,
                   copyVars, constVars>>

\* _on_custom_bm_click on the i-th custom bookmark
CustomBmClick(i) ==
    /\ Idle
    /\ Commit(ScrollToPage(Cur, custom_bookmarks[i]))
    /\ lastOp' = "custom_bm_click"
    /\ msgs' = <<>>
    /\ UNCHANGED <<winVars, selVars, dlgVars, copyVars, constVars>>

\* _do_search with the text t in the search box
DoSearch(t) ==
    /\ Idle
    /\ t # "" /\ DocTruthy(win_doc)
    /\ Commit(Search(Cur, t))
    /\ lastOp' = "search"
    /\ msgs' = <<>>
    /\ UNCHANGED <<winVars, selVars, dlgVars, copyVars, constVars>>

\* _clear_search
ClearSearchClick ==
    /\ Idle
    /\ Commit(ClearSearch(Cur))
    /\ lastOp' = "clear_search"
    /\ msgs' = <<>>
    /\ UNCHANGED <<winVars, selVars, dlgVars, copyVars, constVars>>

\* ======================================================================
\*  Zoom events
\* ======================================================================

\* The zoom levels zoom_in / zoom_out are followed to: those next to the
\* two limits and to 1.0.
ZoomWindow ==
    {ZOOM_MIN, ZOOM_MIN + ZOOM_STEP, ZoomUnit - ZOOM_STEP, ZoomUnit,
     ZoomUnit + ZOOM_STEP, ZOOM_MAX - ZOOM_STEP, ZOOM_MAX}

\* Values typed into the zoom combo (as zoom factors) and items picked.
TypedZooms == {1000, 2005, 10005, 60000}
ZoomComboItems == {5000, 20000}

ZoomEvent(z, op) ==
    /\ Idle
    /\ \/ Len(timers) < MaxTimers /\ zoomCount < MaxZooms
       \/ SetZoom(Cur, z).timers = timers
    /\ Commit(SetZoom(Cur, z))
    /\ zoomCount' = IF SetZoom(Cur, z).timers = timers THEN zoomCount
                    ELSE zoomCount + 1
    /\ lastOp' = op
    /\ msgs' = <<>>
    /\ UNCHANGED <<winVars, selVars, dlgVars, copyVars, viewportH, viewportW>>

\* zoom_in (menu, toolbar, shortcut, Ctrl+wheel up)
ZoomIn ==
    /\ Max(ZOOM_MIN, Min(ZOOM_MAX, zoom + ZOOM_STEP)) \in ZoomWindow
    /\ ZoomEvent(zoom + ZOOM_STEP, "zoom")

\* zoom_out (menu, toolbar, shortcut, Ctrl+wheel down)
ZoomOut ==
    /\ Max(ZOOM_MIN, Min(ZOOM_MAX, zoom - ZOOM_STEP)) \in ZoomWindow
    /\ ZoomEvent(zoom - ZOOM_STEP, "zoom")

\* fit_width: zoom = (viewport width - 40) / (page 0 width * DPI_RENDER / 72)
FitWidth ==
    /\ DocTruthy(doc)
    /\ ZoomEvent(((viewportW - 40) * 72 * ZoomUnit)
                    \div (Files[doc].pages[1].w * DPI_RENDER), "zoom")

\* fit_page
FitPage ==
    /\ DocTruthy(doc)
    /\ ZoomEvent(Min(((viewportW - 40) * 72 * ZoomUnit)
                        \div (Files[doc].pages[1].w * DPI_RENDER),
                     ((viewportH - 40) * 72 * ZoomUnit)
                        \div (Files[doc].pages[1].h * DPI_RENDER)), "zoom")

\* _on_zoom_combo
ZoomCombo(d) == ZoomEvent(d, "zoom")

\* _on_zoom_typed
ZoomTyped(z) == ZoomEvent(z, "zoom")

\* The event loop runs the oldest deferred restore of set_zoom.
TimerFire ==
    /\ timers # <<>>
    /\ Commit(RunRestore(Cur))
    /\ lastOp' = "restore"
    /\ msgs' = <<>>
    /\ UNCHANGED <<winVars, selVars, dlgVars, copyVars, constVars>>

\* ======================================================================
\*  Rubber-band selection and text copy
\* ======================================================================

\* Pointer positions (canvas coordinates) and buttons of the mouse events.
Points == {[x |-> 0, y |-> 0], [x |-> 12, y |-> 14], [x |-> 45, y |-> 60]}
Buttons == {"left", "right"}

\* doc[i].get_text("text", clip=clip).strip() for the clip
\* (local.x() / scale, local.y() / scale, local.right() / scale,
\* local.bottom() / scale), scale = DPI_RENDER / 72 * zoom: the page's text
\* when the clip overlaps its box, else "".  The comparison is made in
\* pixels * 72 * ZoomUnit, which avoids the division.
GetText(d, i, local, z) ==
    LET wd == At(Files[d].words, i)
        k == 72 * ZoomUnit
        m == DPI_RENDER * z
    IN  IF /\ wd.text # ""
           /\ wd.x0 * m < local.x2 * k /\ local.x1 * k < wd.x1 * m
           /\ wd.y0 * m < local.y2 * k /\ local.y1 * k < wd.y1 * m
        THEN wd.text ELSE ""

\* The loop of _try_copy_selection from page i on; c is the clipboard and
\* q the pages whose text was asked for so far.
RECURSIVE CopyLoop(_, _, _, _)
CopyLoop(sel, i, c, q) ==
    IF i >= Len(pixmaps) THEN [clipboard |-> c, queried |-> q]
    ELSE LET pr == page_rect(pixmaps, page_y, cwidth, i)
             inter == Intersected(sel, pr)
             local == QRectXYWH(inter.x1 - pr.x1, inter.y1 - pr.y1,
                                RWidth(inter), RHeight(inter))
             text == GetText(doc, i, local, zoom)
         IN  IF RIsEmpty(inter) THEN CopyLoop(sel, i + 1, c, q)
             ELSE IF text # "" THEN [clipboard |-> text, queried |-> Append(q, i)]
             ELSE CopyLoop(sel, i + 1, c, Append(q, i))

\* _try_copy_selection, with the selection as the canvas has it after its
\* own mouseReleaseEvent (origin o, current c)
TryCopySelection(o, c) ==
    LET sel == selection_rect(o, c)
    IN  IF ~DocTruthy(doc) THEN [clipboard |-> clipboard, queried |-> <<>>]
        ELSE IF sel = Nil THEN [clipboard |-> clipboard, queried |-> <<>>]
        ELSE IF RWidth(sel) < 4 \/ RHeight(sel) < 4
             THEN [clipboard |-> clipboard, queried |-> <<>>]
        ELSE CopyLoop(sel, 0, clipboard, <<>>)

\* PageCanvas.mousePressEvent; the event is then ignored by the base
\* classes.  A left press starts a drag.
MousePress(btn, pos) ==
    /\ Idle
    /\ IF btn = "left"
       THEN /\ ~dragging
            /\ sel_origin' = pos
            /\ sel_current' = pos
            /\ dragging' = TRUE
            /\ dragStart' = pos
            /\ pointer' = pos
       ELSE /\ dragging => pos = pointer
            /\ UNCHANGED selVars
    /\ Commit(Cur)
    /\ lastOp' = "press"
    /\ msgs' = <<>>
    /\ UNCHANGED <<winVars, dlgVars, copyVars, constVars>>

\* PageCanvas.mouseMoveEvent (mouse tracking is on)
MouseMove(pos) ==
    /\ Idle
    /\ sel_current' = IF sel_origin # Nil THEN pos ELSE sel_current
    /\ pointer' = IF dragging THEN pos ELSE pointer
    /\ Commit(Cur)
    /\ lastOp' = "move"
    /\ msgs' = <<>>
    /\ UNCHANGED <<sel_origin, dragging, dragStart, winVars, dlgVars, copyVars,
                   constVars>>

\* PageCanvas.mouseReleaseEvent, then (the event being ignored there)
\* PdfViewerWidget.mouseReleaseEvent: _try_copy_selection, clear_selection.
MouseRelease(btn, pos) ==
    /\ Idle
    /\ IF btn = "left"
       THEN LET c == IF Truthy(sel_origin) THEN pos ELSE sel_current
                r == TryCopySelection(sel_origin, c)
            IN  /\ dragging
                /\ clipboard' = r.clipboard
                /\ queried' = r.queried
                /\ sel_origin' = Nil
                /\ sel_current' = Nil
                /\ dragging' = FALSE
                /\ dragStart' = Nil
                /\ pointer' = Nil
       ELSE /\ dragging => pos = pointer
            /\ UNCHANGED <<selVars, copyVars>>
    /\ Commit(Cur)
    /\ lastOp' = "release"
    /\ msgs' = <<>>
    /\ UNCHANGED <<winVars, dlgVars, constVars>>

\* ======================================================================
\*  Export
\* ======================================================================

\* QSpinBox.setValue: bounded to the range
SpinBound(lo, hi, x) == Max(lo, Min(Max(lo, hi), x))

\* _export up to dlg.exec(): without a document a message, else the dialog
\* with spin_from = current page + 1 and spin_to = the page count.
ExportOpen ==
    /\ Idle
    /\ IF ~DocTruthy(win_doc)
       THEN /\ msgs' = <<"information">>
            /\ dlg' = dlg
       ELSE /\ msgs' = <<>>
            /\ dlg' = [total |-> DocLen(win_doc),
                       from |-> SpinBound(1, DocLen(win_doc), Max(1, current_page + 1)),
                       to |-> SpinBound(1, DocLen(win_doc), DocLen(win_doc))]
    /\ Commit(Cur)
    /\ lastOp' = "export_open"
    /\ UNCHANGED <<written, winVars, selVars, copyVars, constVars>>

\* The user edits a spin box of the dialog (values within its range).
DlgSetFrom(n) ==
    /\ dlg # Nil
    /\ n # dlg.from
    /\ dlg' = [dlg EXCEPT !.from = SpinBound(1, dlg.total, n)]
    /\ Commit(Cur)
    /\ lastOp' = "dlg_edit"
    /\ msgs' = <<>>
    /\ UNCHANGED <<written, winVars, selVars, copyVars, constVars>>

DlgSetTo(n) ==
    /\ dlg # Nil
    /\ n # dlg.to
    /\ dlg' = [dlg EXCEPT !.to = SpinBound(1, dlg.total, n)]
    /\ Commit(Cur)
    /\ lastOp' = "dlg_edit"
    /\ msgs' = <<>>
    /\ UNCHANGED <<written, winVars, selVars, copyVars, constVars>>

\* A variant of _validate: the range is not checked.
ValidateAlways(d) == d.from >= 1

\* _validate: does the dialog accept?
Validate(d) == ~(d.from > d.to)

\* OK pressed: _validate; when it accepts, the rest of _export writes
\* pages from - 1 .. to - 1 (saved says whether nd.save succeeded).
DlgOk(saved) ==
    /\ dlg # Nil
    /\ IF ~Validate(dlg)
       THEN /\ msgs' = <<"warning">>
            /\ UNCHANGED <<dlg, written>>
       ELSE /\ written' = [doc |-> win_doc, from |-> dlg.from - 1,
                           to |-> dlg.to - 1, saved |-> saved]
            /\ msgs' = IF saved THEN <<"information">> ELSE <<"critical">>
            /\ dlg' = Nil
    /\ Commit(Cur)
    /\ lastOp' = "dlg_ok"
    /\ UNCHANGED <<winVars, selVars, copyVars, constVars>>

\* Cancel pressed
DlgCancel ==
    /\ dlg # Nil
    /\ dlg' = Nil
    /\ Commit(Cur)
    /\ lastOp' = "dlg_cancel"
    /\ msgs' = <<>>
    /\ UNCHANGED <<written, winVars, selVars, copyVars, constVars>>

\* ======================================================================
\*  Specifications
\* ======================================================================

NavNext ==
    \/ \E p \in Paths : LoadPdf(p)
    \/ \E x \in UserScrollValues : UserScroll(x)
    \/ \E n \in 1..spin_max : PageSpin(n)
    \/ \E i \in DOMAIN bookmark_tree : BmClick(i)
    \/ AddBookmark
    \/ \E i \in DOMAIN custom_bookmarks : CustomBmClick(i)
    \/ \E t \in SearchTexts : DoSearch(t)
    \/ ClearSearchClick

ZoomNext ==
    \/ ZoomIn
    \/ ZoomOut
    \/ FitWidth
    \/ FitPage
    \/ \E d \in ZoomComboItems : ZoomCombo(d)
    \/ \E z \in TypedZooms : ZoomTyped(z)
    \/ TimerFire

MouseNext ==
    \/ \E b \in Buttons, pos \in Points : MousePress(b, pos)
    \/ \E pos \in Points : MouseMove(pos)
    \/ \E b \in Buttons, pos \in Points : MouseRelease(b, pos)

ExportNext ==
    \/ ExportOpen
    \/ \E n \in 1..MaxPages : DlgSetFrom(n)
    \/ \E n \in 1..MaxPages : DlgSetTo(n)
    \/ \E saved \in BOOLEAN : DlgOk(saved)
    \/ DlgCancel

\* The whole program: every event the window handles.
Next == NavNext \/ ZoomNext \/ MouseNext \/ ExportNext

Spec == Init /\ [][Next]_vars

\* The viewer under loading, scrolling, page jumps, search and zooming by
\* steps, with the deferred restores of set_zoom interleaved: a pending
\* restore is overtaken by loads, scrolls, spin-box jumps and further zoom
\* steps; TOC clicks and searches come when no restore is pending.
ViewNext ==
    \/ \E p \in Paths : LoadPdf(p)
    \/ \E x \in UserScrollValues : UserScroll(x)
    \/ \E n \in 1..spin_max : PageSpin(n)
    \/ timers = <<>> /\ \E i \in DOMAIN bookmark_tree : BmClick(i)
    \/ timers = <<>> /\ \E t \in SearchTexts : DoSearch(t)
    \/ timers = <<>> /\ ClearSearchClick
    \/ ZoomIn
    \/ ZoomOut
    \/ TimerFire

SpecView == Init /\ [][ViewNext]_vars

\* Zooming by every means (steps, fits, combo items, typed values) on
\* whatever document is loaded and wherever it is scrolled to; loads and
\* scrolls come when no restore is pending.
ZoomSpecNext ==
    \/ timers = <<>> /\ \E p \in Paths : LoadPdf(p)
    \/ timers = <<>> /\ \E x \in UserScrollValues : UserScroll(x)
    \/ ZoomNext

SpecZoom == Init /\ [][ZoomSpecNext]_vars

\* Page jumps of every kind (spin box, TOC entries, custom bookmarks, the
\* first search hit) with loads, scrolls and zoom steps between them; a
\* pending restore is overtaken by further zoom steps only.
JumpNext ==
    \/ timers = <<>> /\ \E p \in Paths : LoadPdf(p)
    \/ timers = <<>> /\ \E x \in UserScrollValues : UserScroll(x)
    \/ timers = <<>> /\ \E n \in 1..spin_max : PageSpin(n)
    \/ timers = <<>> /\ \E i \in DOMAIN bookmark_tree : BmClick(i)
    \/ timers = <<>> /\ AddBookmark
    \/ timers = <<>> /\ \E i \in DOMAIN custom_bookmarks : CustomBmClick(i)
    \/ timers = <<>> /\ \E t \in SearchTexts : DoSearch(t)
    \/ timers = <<>> /\ ClearSearchClick
    \/ ZoomIn
    \/ ZoomOut
    \/ TimerFire

SpecJump == Init /\ [][JumpNext]_vars

\* Navigation without zoom: loading, scrolling, page jumps from the spin
\* box, the TOC and custom bookmarks, search.
SpecNav == Init /\ [][NavNext]_vars

\* The rubber-band selection on whatever document is loaded.
SelNext == (\E p \in Paths : LoadPdf(p)) \/ MouseNext

SpecSel == Init /\ [][SelNext]_vars

\* The export flow on whatever document and page are current.
ExpNext ==
    \/ \E p \in Paths : LoadPdf(p)
    \/ \E n \in 1..spin_max : PageSpin(n)
    \/ ExportNext

SpecExport == Init /\ [][ExpNext]_vars

\* The page sizes set_pixmaps is tried with: small ones, zero included.
PixSizes == {[w |-> w, h |-> h] : w \in 0..MaxPixW, h \in 0..MaxPixH}

\* The page lists of the specification's scenarios.
Scenarios ==
    {<<[w |-> 600, h |-> 800]>>,
     <<[w |-> 400, h |-> 600], [w |-> 500, h |-> 600]>>}

\* The lists set_pixmaps is called with in a state: the empty list, a
\* scenario, or the current list with one more page; every list of up to
\* MaxPages sizes is reached this way.
PixLists ==
    {<<>>} \cup Scenarios
      \cup (IF Len(pixmaps) < MaxPages
            THEN {Append(pixmaps, sz) : sz \in PixSizes}
            ELSE {})

SetPixmapsCall(pms) ==
    /\ Commit(SetPixmaps(Cur, pms))
    /\ lastOp' = "set_pixmaps"
    /\ msgs' = <<>>
    /\ UNCHANGED <<winVars, selVars, dlgVars, copyVars, constVars>>

\* set_pixmaps called once more with the list it was last called with.
SetPixmapsAgain ==
    /\ lastOp # "init"
    /\ Commit(SetPixmaps(Cur, pixmaps))
    /\ lastOp' = "set_pixmaps_again"
    /\ msgs' = <<>>
    /\ UNCHANGED <<winVars, selVars, dlgVars, copyVars, constVars>>

LayoutNext ==
    \/ \E pms \in PixLists : SetPixmapsCall(pms)
    \/ SetPixmapsAgain

SpecLayout == Init /\ [][LayoutNext]_vars

\* ======================================================================
\*  Properties of the layout (checked under SpecLayout)
\* ======================================================================

PageCount == Len(pixmaps)
PageIdx == 0..(PageCount - 1)
Region(i) == page_rect(pixmaps, page_y, cwidth, i)
MaxOf(S) == CHOOSE m \in S : \A n \in S : m >= n

\* C1: with at least one page, the top of page 0 is the gap, each next top
\* is the previous top plus the previous height plus the gap, so the page
\* regions are strictly increasing in Y, do not overlap and consecutive
\* ones are exactly one gap apart.
C1_StackedLayout ==
    PageCount > 0 =>
        /\ Len(page_y) = PageCount
        /\ At(page_y, 0) = PAGE_GAP
        /\ Region(0).y1 = PAGE_GAP
        /\ \A i \in 0..(PageCount - 2) :
              /\ At(page_y, i + 1) = At(page_y, i) + At(pixmaps, i).h + PAGE_GAP
              /\ Region(i + 1).y1 > Region(i).y1
              /\ Region(i + 1).y1 - (Region(i).y2 + 1) = PAGE_GAP
        /\ \A i, j \in PageIdx :
              i < j => Region(i).y2 < Region(j).y1

\* The scenario of the specification: [(400,600),(500,600)] laid out at
\* 10 and 620.
C1_Witness ==
    /\ lastOp = "set_pixmaps"
    /\ pixmaps = <<[w |-> 400, h |-> 600], [w |-> 500, h |-> 600]>>
    /\ Region(0).y1 = 10
    /\ Region(1).y1 = 620

\* C2: with at least one page, the canvas is max page width + 2 gaps wide
\* and last top + last height + gap high.
C2_TotalSize ==
    PageCount > 0 =>
        LET widest == MaxOf({At(pixmaps, i).w : i \in PageIdx})
            last == PageCount - 1
            size == [w |-> widest + 2 * PAGE_GAP,
                     h |-> At(page_y, last) + At(pixmaps, last).h + PAGE_GAP]
        IN  /\ [w |-> max_w, h |-> total_h] = size
            /\ [w |-> cwidth, h |-> cheight] = size
            /\ sizeHint(pixmaps, max_w, total_h) = size

\* The scenarios of the specification: [(600,800)] gives (620, 820).
C2_Witness ==
    /\ lastOp = "set_pixmaps"
    /\ pixmaps = <<[w |-> 600, h |-> 800]>>
    /\ cwidth = 620
    /\ cheight = 820

\* The coordinates page_at_y is probed with: a range around the small
\* layouts, the neighbourhood of every page top, and the scenario's.
YProbes ==
    (-2..MaxYProbe)
      \cup UNION {{At(page_y, i) - 1, At(page_y, i), At(page_y, i) + 1} : i \in PageIdx}
      \cup {615, 620}

\* C3: page_at_y(y) is the greatest page index whose top is <= y, and 0
\* when there is none (or no page); a y on a page top belongs to that page.
C3_PageAtY ==
    \A y \in YProbes :
        LET S == {i \in 0..(Len(page_y) - 1) : At(page_y, i) <= y}
            r == page_at_y(page_y, y)
        IN  /\ r = IF S = {} THEN 0 ELSE MaxOf(S)
            /\ (Len(page_y) > 0 /\ y >= At(page_y, Len(page_y) - 1))
                  => r = Len(page_y) - 1
            /\ \A i \in 0..(Len(page_y) - 1) : y = At(page_y, i) => r = i

\* The scenario of the specification: 615 is on page 0, 620 on page 1.
C3_Witness ==
    /\ lastOp = "set_pixmaps"
    /\ pixmaps = <<[w |-> 400, h |-> 600], [w |-> 500, h |-> 600]>>
    /\ page_at_y(page_y, 615) = 0
    /\ page_at_y(page_y, 620) = 1

\* C4: page_rect(index) is, for an index in [0, pageCount), the page's
\* size at its top, horizontally centred in the canvas
\* (x = (canvas width - page width) div 2); for any other index the empty
\* rectangle.
C4_PageRect ==
    \A idx \in (-2)..(PageCount + 2) :
        IF idx \in PageIdx
        THEN LET x == (cwidth - At(pixmaps, idx).w) \div 2
             IN  /\ Region(idx) = QRectXYWH(x, At(page_y, idx), At(pixmaps, idx).w,
                                            At(pixmaps, idx).h)
                 /\ x >= 0
                 /\ cwidth - (x + At(pixmaps, idx).w) - x \in {0, 1}
        ELSE /\ Region(idx) = QRectNull
             /\ RIsEmpty(Region(idx))

\* A narrower page centred beside a wider one, and indexes out of range.
C4_Witness ==
    /\ lastOp = "set_pixmaps"
    /\ pixmaps = <<[w |-> 400, h |-> 600], [w |-> 500, h |-> 600]>>
    /\ Region(0) = QRectXYWH(60, 10, 400, 600)
    /\ Region(1) = QRectXYWH(10, 620, 500, 600)
    /\ Region(-1) = QRectNull
    /\ Region(2) = QRectNull

\* ======================================================================
\*  Properties of the viewer (checked under SpecView)
\* ======================================================================

\* The page at the vertical centre of the viewport.
PageAtCentre == page_at_y(page_y, sbValue + viewportH \div 2)

\* A document with at least one page is displayed.
Displayed == DocTruthy(doc) /\ Len(pixmaps) > 0

\* C5 (as stated): whenever a document with at least one page is displayed,
\* the recorded active page is the page at the centre of the viewport.
C5_ActiveIsCentre == Displayed => current_page = PageAtCentre

\* C5 (amended): a handler in which the scroll value changes outside
\* scroll_to_page (user scroll, re-layout on zoom, deferred restore) leaves
\* the recorded page at the page at the centre; such a handler that does
\* not move the scroll bar leaves the recorded page as it was; a jump
\* records its target whatever page is at the centre afterwards: the page
\* of the spin box, the TOC entry's page when the document has it, the
\* first page with a hit, page 0 on a load.
C5_Step ==
    /\ (lastOp' \in {"scroll", "zoom", "restore", "clear_search"} /\ Displayed')
          => IF sbValue' # sbValue
             THEN current_page' = PageAtCentre'
             ELSE current_page' = current_page
    /\ (lastOp' = "scroll_to_page" /\ Displayed') => current_page' = page_spin' - 1
    /\ (lastOp' = "bm_click" /\ Displayed')
          => \E i \in DOMAIN bookmark_tree :
                current_page' = IF bookmark_tree[i] \in PageIdx
                                THEN bookmark_tree[i] ELSE current_page
    /\ (lastOp' = "search" /\ Displayed')
          => current_page' = IF search_rects' # {} THEN MinOf(search_rects')
                             ELSE current_page
    /\ (lastOp' = "load_pdf" /\ Displayed') => current_page' = 0

C5_ActiveAfterScroll == [][C5_Step]_vars

\* A user scroll has brought the last of three pages to the centre.
C5_Witness ==
    /\ lastOp = "scroll"
    /\ Displayed
    /\ current_page = 2
    /\ PageAtCentre = 2

\* No two consecutive notifications carry the same page.
RECURSIVE NoAdjacentDup(_)
NoAdjacentDup(q) ==
    Len(q) < 2 \/ (q[1] # q[2] /\ NoAdjacentDup(Tail(q)))

\* C6 (as stated): a handler emits page_changed once when it changes the
\* recorded page, with the new page, and not at all when it leaves it; so
\* consecutive notifications differ.
C6_OncePerChangeStep ==
    /\ notes' = IF current_page' # current_page THEN <<current_page'>> ELSE <<>>
    /\ NoAdjacentDup(<<lastNote'>> \o notes')

C6_OncePerChange == [][C6_OncePerChangeStep]_vars

\* C6 (amended): the handlers that change the page through _on_scroll only
\* (user scroll, re-layout on zoom or clear-search, deferred restore) emit
\* once when the recorded page changes, with the new page, and not
\* otherwise, so what they emit differs from the notification before it;
\* a jump (spin box, load, TOC click, search hit) notifies every change of
\* the recorded page, ends with a notification of its target whether or
\* not the page changed, and emits at most twice.
C6_ScrollStep ==
    /\ lastOp' \in {"scroll", "zoom", "restore", "clear_search"}
          => /\ notes' = IF current_page' # current_page
                         THEN <<current_page'>> ELSE <<>>
             /\ (Displayed /\ lastNote' = current_page)
                   => NoAdjacentDup(<<lastNote'>> \o notes')
    /\ (lastOp' \in {"scroll_to_page", "load_pdf"} /\ Len(pixmaps') > 0)
          => notes' # <<>>
    /\ (lastOp' = "search" /\ search_rects' # {}) => notes' # <<>>
    /\ lastOp' \in {"scroll_to_page", "load_pdf", "bm_click", "search"}
          => /\ Len(notes') <= 2
             /\ notes' # <<>> => notes'[Len(notes')] = current_page'
             /\ current_page' # current_page => notes' # <<>>

C6_OncePerScrollChange == [][C6_ScrollStep]_vars

\* A user scroll that changed the page and emitted exactly that page.
C6_Witness ==
    /\ lastOp = "scroll"
    /\ notes = <<current_page>>
    /\ lastNote # NoNote
    /\ lastNote # current_page

\* C7 (as stated): when a deferred restore runs (for the document it was
\* captured on), the scroll value becomes the captured fraction times the
\* scroll maximum its zoom change produced, whatever was handled between.
C7_RestoreStep ==
    (lastOp' = "restore" /\ timers # <<>> /\ Head(timers).doc = doc)
        => sbValue' = IntRelTimes(Head(timers).num, Head(timers).den,
                                  Head(timers).newMax)

C7_RestoreFraction == [][C7_RestoreStep]_vars

\* C10: a load whose fitz.open raises shows one message box and leaves the
\* document handle and path, the open documents, the bookmarks, the page
\* images, the layout, the scroll offset, the zoom and the active page as
\* they were, and emits nothing.
C10_FailedLoadStep ==
    lastOp' = "load_failed"
        => /\ msgs' = <<"critical">>
           /\ notes' = <<>>
           /\ UNCHANGED <<win_doc, doc_path, openDocs, custom_bookmarks,
                          bookmark_tree, doc, pixmaps, page_y, total_h, max_w,
                          cwidth, cheight, sbValue, sbMax, zoom, current_page,
                          search_rects, timers, page_spin, spin_max>>

C10_FailedLoadKeepsState == [][C10_FailedLoadStep]_vars

\* A failed load on top of a loaded, scrolled document that stays open.
C10_Witness ==
    /\ lastOp = "load_failed"
    /\ msgs = <<"critical">>
    /\ DocTruthy(win_doc)
    /\ win_doc \in openDocs
    /\ doc = win_doc
    /\ current_page > 0
    /\ sbValue > 0

\* ======================================================================
\*  Properties of the selection (checked under SpecSel)
\* ======================================================================

\* C8: without a drag in progress selection_rect() is None; during a drag
\* it is the normalized rectangle between the drag start and the pointer.
C8_SelectionRect ==
    LET r == selection_rect(sel_origin, sel_current)
    IN  IF dragging
        THEN /\ r = Normalized(QRectPts(dragStart, pointer))
             /\ RWidth(r) >= 0
             /\ RHeight(r) >= 0
        ELSE r = Nil

\* ======================================================================
\*  Properties of the export (checked under SpecExport)
\* ======================================================================

\* C9: whatever was written is a range 0 <= from <= to < page count of the
\* document exported; OK with from > to shows the warning, keeps the dialog
\* open and changes neither the output nor the document state.
C9_Step ==
    /\ written' # Nil
          => /\ 0 <= written'.from
             /\ written'.from <= written'.to
             /\ written'.to < DocLen(written'.doc)
    /\ written' # written => written'.doc = win_doc
    /\ (lastOp' = "dlg_ok" /\ dlg # Nil /\ dlg.from > dlg.to)
          => /\ dlg' = dlg
             /\ written' = written
             /\ msgs' = <<"warning">>
             /\ UNCHANGED <<win_doc, doc_path, openDocs, doc, pixmaps, page_y,
                            current_page, sbValue, zoom>>

C9_ExportRangeValid == [][C9_Step]_vars

\* After a proper sub-range was written, OK is pressed with from > to: the
\* dialog is still open and the earlier output stands.
C9_Witness ==
    /\ lastOp = "dlg_ok"
    /\ msgs = <<"warning">>
    /\ dlg # Nil
    /\ dlg.from > dlg.to
    /\ written # Nil
    /\ written.from = 1
    /\ written.to = 2

\* ======================================================================
\*  Properties of the empty layout (checked under SpecLayout)
\* ======================================================================

\* The size sizeHint reports for an empty page list.
Placeholder == sizeHint(<<>>, 0, 0)

\* C11: with an empty page list the canvas size (the size the widget has)
\* is the 100 by 100 placeholder sizeHint reports, and page_rect(0) is the
\* empty rectangle.
C11_EmptyLayout ==
    Len(pixmaps) = 0 =>
        /\ sizeHint(pixmaps, max_w, total_h) = Placeholder
        /\ Placeholder = [w |-> 100, h |-> 100]
        /\ [w |-> cwidth, h |-> cheight] = Placeholder
        /\ Region(0) = QRectNull
        /\ RIsEmpty(Region(0))

\* ======================================================================
\*  Properties of the zoom factor (checked under SpecZoom)
\* ======================================================================

\* The zoom values requested of set_zoom in the current state.
ZoomRequests ==
    TypedZooms \cup ZoomComboItems
      \cup {zoom + ZOOM_STEP, zoom - ZOOM_STEP}
      \cup (IF DocTruthy(doc)
            THEN {((viewportW - 40) * 72 * ZoomUnit)
                      \div (Files[doc].pages[1].w * DPI_RENDER),
                  ((viewportH - 40) * 72 * ZoomUnit)
                      \div (Files[doc].pages[1].h * DPI_RENDER)}
            ELSE {})

\* The bound nearest to a requested zoom, the request itself when in range.
Bounded(z) == IF z < ZOOM_MIN THEN ZOOM_MIN ELSE IF z > ZOOM_MAX THEN ZOOM_MAX ELSE z

\* C12: the zoom factor stays in [ZOOM_MIN, ZOOM_MAX]; set_zoom brings a
\* request outside the range to the nearest bound; a request that, so
\* bounded, is within the tolerance (0.001) of the current zoom leaves
\* zoom, page images, layout, scroll offset and pending restores as they
\* were, and any other request becomes the zoom.
C12_Step ==
    /\ ZOOM_MIN <= zoom' /\ zoom' <= ZOOM_MAX
    /\ \A z \in ZoomRequests :
          ZoomEvent(z, "zoom") =>
              IF Abs(Bounded(z) - zoom) < ZOOM_TOL
              THEN UNCHANGED <<zoom, pixmaps, page_y, total_h, max_w, cwidth,
                               cheight, sbValue, sbMax, timers, current_page>>
              ELSE /\ zoom' = Bounded(z)
                   /\ z < ZOOM_MIN => zoom' = ZOOM_MIN
                   /\ z > ZOOM_MAX => zoom' = ZOOM_MAX
                   /\ Len(timers') = Len(timers) + 1

C12_ZoomInRange == [][C12_Step]_vars

\* A typed 600% was bounded to ZOOM_MAX on a loaded document.
C12_Witness ==
    /\ lastOp = "zoom"
    /\ zoom = ZOOM_MAX
    /\ DocTruthy(doc)
    /\ timers # <<>>

\* ======================================================================
\*  Idempotence of the layout (checked under SpecLayout)
\* ======================================================================

\* A canvas on which set_pixmaps was never called.
FreshCanvas ==
    [Cur EXCEPT !.pixmaps = <<>>, !.page_y = <<>>, !.total_h = 0, !.max_w = 0,
                !.cwidth = Placeholder.w, !.cheight = Placeholder.h]

\* The layout entries and total size of a viewer state.
LayoutOf(v) ==
    [page_y |-> v.page_y, total |-> [w |-> v.max_w, h |-> v.total_h],
     size |-> [w |-> v.cwidth, h |-> v.cheight]]

\* C13: set_pixmaps called a second time with the same list leaves the
\* layout entries and the total size as the first call left them, and
\* after any call they are those a fresh canvas gets for the same list,
\* whatever the layout was before.
C13_Step ==
    /\ lastOp' = "set_pixmaps_again"
          => /\ pixmaps' = pixmaps
             /\ LayoutOf(Cur') = LayoutOf(Cur)
    /\ lastOp' \in {"set_pixmaps", "set_pixmaps_again"}
          => LayoutOf(Cur') = LayoutOf(SetPixmaps(FreshCanvas, pixmaps'))

C13_Idempotent == [][C13_Step]_vars

\* The scenario's two pages laid out twice in a row.
C13_Witness ==
    /\ lastOp = "set_pixmaps_again"
    /\ pixmaps = <<[w |-> 400, h |-> 600], [w |-> 500, h |-> 600]>>
    /\ page_y = <<10, 620>>
    /\ [w |-> cwidth, h |-> cheight] = [w |-> 520, h |-> 1230]

\* ======================================================================
\*  Properties of the text copy (checked under SpecSel)
\* ======================================================================

\* The part of a selection on page i, in the page's own coordinates.
LocalClip(sel, i) ==
    LET inter == Intersected(sel, Region(i))
    IN  QRectXYWH(inter.x1 - Region(i).x1, inter.y1 - Region(i).y1,
                  RWidth(inter), RHeight(inter))

\* The members of a set of numbers in increasing order.
RECURSIVE Ascending(_)
Ascending(S) ==
    IF S = {} THEN <<>>
    ELSE LET m == CHOOSE x \in S : \A y \in S : x <= y
         IN  <<m>> \o Ascending(S \ {m})

\* C14: a left release that ends a drag with a document loaded asks the
\* pages that intersect the selection (the rectangle between the drag
\* start and the release position) for their text, in increasing order,
\* with the intersection in page coordinates as the clip, up to and
\* including the first that has text there; that text becomes the
\* clipboard; no other page is asked; without such a page the clipboard
\* stays.
C14_Step ==
    \A pos \in Points :
        (MouseRelease("left", pos) /\ DocTruthy(doc)) =>
            LET sel == Normalized(QRectPts(dragStart, pos))
                hit == {i \in PageIdx : ~RIsEmpty(Intersected(sel, Region(i)))}
                yielding == {i \in hit :
                                GetText(doc, i, LocalClip(sel, i), zoom) # ""}
                first == CHOOSE i \in yielding : \A j \in yielding : i <= j
            IN  IF yielding = {}
                THEN /\ clipboard' = clipboard
                     /\ queried' = Ascending(hit)
                ELSE /\ clipboard' = GetText(doc, first, LocalClip(sel, first), zoom)
                     /\ queried' = Ascending({i \in hit : i <= first})

C14_CopyFirstText == [][C14_Step]_vars

\* ======================================================================
\*  Range of the active page (checked under SpecJump)
\* ======================================================================

\* C15: with a document of at least one page loaded the recorded active
\* page is an index of the displayed page list; a click on a TOC entry
\* whose page index is outside [0, page count) changes neither the scroll
\* offset nor the active page and emits nothing; the custom bookmarks
\* only ever hold indices of the displayed page list.
C15_Step ==
    /\ Displayed' => (0 <= current_page' /\ current_page' < Len(pixmaps'))
    /\ \A i \in DOMAIN bookmark_tree :
          (BmClick(i) /\ bookmark_tree[i] \notin PageIdx)
              => /\ UNCHANGED <<sbValue, current_page, page_spin>>
                 /\ notes' = <<>>
    /\ \A i \in DOMAIN custom_bookmarks' :
          0 <= custom_bookmarks'[i] /\ custom_bookmarks'[i] < Len(pixmaps')

C15_ActivePageInRange == [][C15_Step]_vars

\* A TOC entry pointing past the last page was clicked on page 2 of 3.
C15_Witness ==
    /\ lastOp = "bm_click"
    /\ notes = <<>>
    /\ Displayed
    /\ current_page = 2
    /\ \E i \in DOMAIN bookmark_tree : bookmark_tree[i] >= Len(pixmaps)

====
